---- MODULE Spec2Model ----
(***************************************************************************)
(* artibot-twitter (src/src/index.ts): the start-up of the module, the     *)
(* setup loop of mainFunction (fetch the active stream rules, delete them, *)
(* add one rule per followed user, open the filtered stream) and the       *)
(* handler of the stream's data events, which sends one message per guild  *)
(* that has the configured channel.                                        *)
(*                                                                         *)
(* The Twitter API and the Discord client are the environment: every       *)
(* awaited call may succeed or fail.                                       *)
(***************************************************************************)
EXTENDS Integers, Sequences, FiniteSets, TLC

\* ------------------------------------------------------------------ bounds

\* How many awaited setup calls the Twitter API fails in one run, at most.
MaxFailures == 2
\* How many data events the stream emits in one run, at most.
MaxEvents == 2

\* ------------------------------------------------------------- JS values

\* An optional value (a property that may be undefined) is a sequence of
\* at most one element: Undefined when absent, Some(v) when set to v.
Undefined == <<>>

Some(v) == <<v>>

IsDefined(o) == o # Undefined

ValueOf(o) == o[1]

\* toLowerCase() on one character.
LowerChar(c) ==
    CASE c = "T" -> "t"
      [] c = "W" -> "w"
      [] c = "M" -> "m"
      [] c = "O" -> "o"
      [] c = "N" -> "n"
      [] OTHER -> c

\* String.prototype.toLowerCase.
ToLowerCase(s) == [i \in 1..Len(s) |-> LowerChar(s[i])]

\* A JavaScript string is a sequence of pieces of text: single characters
\* where the code lower-cases the string, longer pieces elsewhere.  The +
\* of two strings is \o.
EmptyString == <<>>

\* JavaScript truthiness of an optional string: undefined and the empty
\* string are falsy.
Truthy(o) == IsDefined(o) /\ ValueOf(o) # EmptyString

\* Array.prototype.find as an index: the first of the indices whose
\* elements satisfy the test, 0 when there is none.
FindIndex(matching) ==
    IF matching = {} THEN 0
    ELSE CHOOSE i \in matching : \A j \in matching : i <= j

\* ------------------------------------------------------------ the inputs

GuildText == "GuildText"
GuildVoice == "GuildVoice"

\* Guilds of the client's cache, as the handler reads them.
GuildPlain ==
    [ name |-> "plain",
      channels |-> << [type |-> GuildText, name |-> <<"t", "W">>] >>,
      roles |-> << [name |-> <<"n", "o">>, id |-> <<"r1">>],
                   [name |-> <<"M", "o">>, id |-> <<"r2">>],
                   [name |-> <<"m", "O">>, id |-> <<"r3">>] >> ]

GuildNone ==
    [ name |-> "none",
      channels |-> << [type |-> GuildVoice, name |-> <<"t", "w">>],
                      [type |-> GuildText, name |-> <<"n", "w">>] >>,
      roles |-> << [name |-> <<"m", "o">>, id |-> <<"r4">>] >> ]

GuildTwo ==
    [ name |-> "two",
      channels |-> << [type |-> GuildText, name |-> <<"n", "w">>],
                      [type |-> GuildText, name |-> <<"T", "w">>],
                      [type |-> GuildText, name |-> <<"t", "w">>] >>,
      roles |-> << [name |-> <<"n", "o">>, id |-> <<"r5">>] >> ]

\* The users of a tweet's includes.
Alice ==
    [ name |-> <<"Alice">>, username |-> <<"alice">>,
      profile_image_url |-> <<"alice.png">> ]

\* Media lists of a tweet's includes.
MediaMixed ==
    << [type |-> "video", url |-> <<"v.mp4">>],
       [type |-> "animated_gif", url |-> <<"g.gif">>],
       [type |-> "photo", url |-> <<"p.png">>] >>

\* The includes of the tweets the stream emits.
IncludesWithoutAuthor ==
    { Undefined,
      Some([users |-> Undefined, media |-> Undefined]),
      Some([users |-> Some(<<>>), media |-> Undefined]) }

\* A media list without a photo or an animated image.
MediaVideo == << [type |-> "video", url |-> <<"w.mp4">>] >>

IncludesWithAuthor ==
    { Some([users |-> Some(<<Alice>>), media |-> Undefined]),
      Some([users |-> Some(<<Alice>>), media |-> Some(MediaVideo)]),
      Some([users |-> Some(<<Alice>>), media |-> Some(MediaMixed)]) }

\* The configured lists of followed users (config.users).
UserLists == { <<>>, << <<"alice">> >>, << <<"alice">>, <<"bob">> >> }

\* The rule the remote side holds for a user, under an identifier.
RuleOf(id, user) == [id |-> id, value |-> <<"from:">> \o user, tag |-> user]

\* The active rules on the remote side before the program starts: none,
\* an unrelated rule, a subset of the rules of two users, exactly those
\* rules, and a superset of them.
InitialRuleSets ==
    { {},
      { RuleOf(1, <<"carol">>) },
      { RuleOf(1, <<"alice">>) },
      { RuleOf(1, <<"alice">>), RuleOf(2, <<"bob">>) },
      { RuleOf(1, <<"bob">>), RuleOf(2, <<"carol">>), RuleOf(3, <<"alice">>) } }

\* The credential of the configuration: absent, empty, or a token.
Tokens == { Undefined, Some(EmptyString), Some(<<"token">>) }

\* ----------------------------------------------------- the Twitter side

\* The identifiers of a set of rules in the order the API lists them.
RECURSIVE ListRules(_)
ListRules(rules) ==
    IF rules = {} THEN <<>>
    ELSE LET r == CHOOSE x \in rules : \A y \in rules : x.id <= y.id
         IN  <<r>> \o ListRules(rules \ {r})

\* GET rules: `data` is absent when no rule is active.
StreamRules(rules) ==
    IF rules = {} THEN [data |-> Undefined]
    ELSE [data |-> Some(ListRules(rules))]

\* POST rules {delete: {ids}}: the rules with these identifiers are gone.
DeleteRules(rules, ids) ==
    { r \in rules : \A i \in 1..Len(ids) : ids[i] # r.id }

\* POST rules {add}: each rule is created under a fresh identifier, unless
\* a rule with the same value is active.
RECURSIVE AddRules(_, _, _)
AddRules(rules, toAdd, fresh) ==
    IF toAdd = <<>> THEN rules
    ELSE LET a == Head(toAdd)
             dup == \E r \in rules : r.value = a.value
         IN  IF dup THEN AddRules(rules, Tail(toAdd), fresh)
             ELSE AddRules(rules \cup {[id |-> fresh, value |-> a.value, tag |-> a.tag]},
                           Tail(toAdd), fresh + 1)

\* ------------------------------------------- mainFunction, pure parts

\* The rules to add: one per configured user.
BuildAdd(users) ==
    [i \in 1..Len(users) |-> [value |-> <<"from:">> \o users[i], tag |-> users[i]]]

\* toDelete.ids after the identifiers of the fetched rules are pushed.
PushIds(ids, activeRules) ==
    IF IsDefined(activeRules.data)
    THEN ids \o [i \in 1..Len(ValueOf(activeRules.data)) |-> ValueOf(activeRules.data)[i].id]
    ELSE ids

\* The delete request is never made.
DeleteNever(ids) == FALSE

\* Whether the delete request is made.
DeleteNeeded(ids) == Len(ids) # 0

\* A token test that takes the empty string for a credential.
TokenUndefined(cfg) == cfg.token = Undefined

\* The token test of artibotTwitter.
TokenMissing(cfg) == ~Truthy(cfg.token)

\* A catch block that retries the connection alone.
AfterCatchReopen == "open"

\* A catch block that leaves the loop.
AfterCatchBreak == "exited"

\* Where the catch block of the setup loop sends control: `continue`.
AfterCatch == "fetch"

\* A loop body without its `break`.
AfterOpenContinue == "fetch"

\* Where control goes once the stream is opened and the handler
\* registered: `break`, and mainFunction returns.
AfterOpen == "listening"

\* A listener that starts the setup again when the connection is lost.
AfterDropReconnect == "fetch"

\* Where control goes when the opened stream's connection is lost: the
\* stream has a listener for data events alone, mainFunction has returned.
AfterDrop == "listening"

\* A catch block that throws the error again.
CatchRethrows == {"SetupError"}

\* What the catch block of the setup loop raises out of mainFunction.
CatchRaises == {}

\* ------------------------------------------------ the handler, pure parts

\* A guard that tests the includes alone.
HasIncludes(tweet) == IsDefined(tweet.includes)

\* The guard of the handler: the tweet carries its author.
HasAuthor(tweet) ==
    /\ IsDefined(tweet.includes)
    /\ IsDefined(ValueOf(tweet.includes).users)
    /\ Len(ValueOf(ValueOf(tweet.includes).users)) >= 1

\* What the template strings show for the properties of an absent user.
NoUser ==
    [ name |-> <<"undefined">>, username |-> <<"undefined">>,
      profile_image_url |-> <<"undefined">> ]

\* tweet.includes.users[0], which the handler reads behind its guard.
AuthorOf(tweet) ==
    IF /\ IsDefined(tweet.includes)
       /\ IsDefined(ValueOf(tweet.includes).users)
       /\ Len(ValueOf(ValueOf(tweet.includes).users)) >= 1
    THEN ValueOf(ValueOf(tweet.includes).users)[1]
    ELSE NoUser

\* A find that compares the names as they are.
FindChannelExact(guild, cfg) ==
    FindIndex({ i \in 1..Len(guild.channels) :
                  /\ guild.channels[i].type = GuildText
                  /\ guild.channels[i].name = cfg.channel })

\* guild.channels.cache.find(...): the index of the first text channel
\* whose lower-cased name is the lower-cased config.channel, 0 when none.
FindChannel(guild, cfg) ==
    FindIndex({ i \in 1..Len(guild.channels) :
                  /\ guild.channels[i].type = GuildText
                  /\ ToLowerCase(guild.channels[i].name) = ToLowerCase(cfg.channel) })

\* guild.roles.cache.find(...): the index of the first role whose
\* lower-cased name is the lower-cased config.role, 0 when none.
FindRole(guild, cfg) ==
    FindIndex({ i \in 1..Len(guild.roles) :
                  ToLowerCase(guild.roles[i].name) = ToLowerCase(ValueOf(cfg.role)) })

\* roleMention(id) of discord.js.
RoleMention(id) == <<"<@&">> \o id \o <<">">>

\* A tag that looks for the role first.
TagRoleFirst(cfg, guild) ==
    IF Truthy(cfg.role) /\ FindRole(guild, cfg) # 0
    THEN Some(RoleMention(guild.roles[FindRole(guild, cfg)].id) \o <<" ">>)
    ELSE IF cfg.everyone THEN Some(<<"@everyone ">>)
    ELSE Undefined

\* The tag of a message in a guild.
Tag(cfg, guild) ==
    IF cfg.everyone THEN Some(<<"@everyone ">>)
    ELSE IF Truthy(cfg.role)
    THEN LET r == FindRole(guild, cfg)
         IN  IF r # 0 THEN Some(RoleMention(guild.roles[r].id) \o <<" ">>)
             ELSE Undefined
    ELSE Undefined

\* A find that takes photos alone.
FindImagePhoto(tweet) ==
    IF IsDefined(tweet.includes) /\ IsDefined(ValueOf(tweet.includes).media)
    THEN LET media == ValueOf(ValueOf(tweet.includes).media)
             i == FindIndex({ n \in 1..Len(media) : media[n].type = "photo" })
         IN  IF i # 0 THEN Some(media[i]) ELSE Undefined
    ELSE Undefined

\* tweet.includes?.media?.find(photo or animated_gif): the media entry,
\* optional.
FindImage(tweet) ==
    IF IsDefined(tweet.includes) /\ IsDefined(ValueOf(tweet.includes).media)
    THEN LET media == ValueOf(ValueOf(tweet.includes).media)
             i == FindIndex({ n \in 1..Len(media) :
                                media[n].type = "photo" \/ media[n].type = "animated_gif" })
         IN  IF i # 0 THEN Some(media[i]) ELSE Undefined
    ELSE Undefined

\* The embed of the tweet.
TweetEmbed(tweet) ==
    LET user == AuthorOf(tweet)
        image == FindImage(tweet)
    IN  [ title |-> <<"New Tweet">>,
          author |-> [ name |-> user.name \o <<" (">> \o user.username \o <<")">>,
                       iconURL |-> user.profile_image_url,
                       url |-> <<"https://twitter.com/">> \o user.username ],
          url |-> <<"https://twitter.com/">> \o user.username
                      \o <<"/status/">> \o tweet.data.id,
          description |-> IF tweet.data.text # EmptyString
                          THEN Some(tweet.data.text) ELSE Undefined,
          image |-> IF IsDefined(image) THEN Some(ValueOf(image).url) ELSE Undefined ]

\* The embed of the banner.
BannerEmbed(cfg) ==
    [ title |-> EmptyString, image |-> Some(ValueOf(cfg.banner)) ]

\* The message sent to a guild's channel.
BuildMessage(cfg, tweet, tag) ==
    [ embeds |-> <<TweetEmbed(tweet)>>
                     \o (IF Truthy(cfg.banner) THEN <<BannerEmbed(cfg)>> ELSE <<>>),
      content |-> IF Truthy(tag) THEN tag ELSE Undefined ]

\* The loop over the guilds from index `from`: the index of the first
\* guild with a channel, Len(gs) + 1 when the loop ends without one.
RECURSIVE NextTarget(_, _, _)
NextTarget(gs, cfg, from) ==
    IF from > Len(gs) THEN Len(gs) + 1
    ELSE IF FindChannel(gs[from], cfg) # 0 THEN from
    ELSE NextTarget(gs, cfg, from + 1)

\* The guilds with a channel from index `from` on, in order.
RECURSIVE TargetsAll(_, _, _)
TargetsAll(gs, cfg, from) ==
    IF NextTarget(gs, cfg, from) > Len(gs) THEN <<>>
    ELSE <<NextTarget(gs, cfg, from)>> \o TargetsAll(gs, cfg, NextTarget(gs, cfg, from) + 1)

\* The guilds to which the loop, run from index `from`, issues a send
\* before the handler suspends: `await channel.send` suspends it at the
\* first one.
Targets(gs, cfg, from) ==
    IF NextTarget(gs, cfg, from) > Len(gs) THEN <<>>
    ELSE <<NextTarget(gs, cfg, from)>>

\* A loop that sends again to the guild whose send was rejected.
AfterSendRetry(gs, at, fulfilled) == IF fulfilled THEN at + 1 ELSE at

\* A loop that a rejected send ends.
AfterSendAbort(gs, at, fulfilled) == IF fulfilled THEN at + 1 ELSE Len(gs) + 1

\* Where the loop over the guilds goes on after the send to guild `at`
\* settled, fulfilled or rejected: the next guild.
AfterSend(gs, at, fulfilled) == at + 1

\* What the catch block around the send raises out of the handler.
SendCatchRaises == {}

\* ---------------------------------------------------------------- state

VARIABLES
    env,          \* the run's environment: how many setup calls the Twitter
                  \* API fails and how many tweets the stream emits, at most,
                  \* and the includes those tweets may have
    config,       \* the module's `config`
    guilds,       \* client.guilds.cache, in iteration order
    rules,        \* the active rules on the Twitter side
    fresh,        \* the next rule identifier the Twitter side hands out
    pc,           \* where the start-up and mainFunction stand
    add,          \* mainFunction's `add`
    toDelete,     \* mainFunction's `toDelete.ids`
    attempt,      \* how many times the body of the setup loop was entered
    failures,     \* how many awaited setup calls have failed
    calls,        \* the requests made to the Twitter API, in order
    streams,      \* how many streams searchStream has opened
    handlers,     \* how many data handlers are registered
    connected,    \* whether the opened stream's connection is up
    raised,       \* the faults raised out of the module
    logs,         \* how many records of each kind were logged
    events,       \* how many data events the stream has emitted
    invocations,  \* the handler's invocations, in order of emission
    sends         \* the calls of channel.send, in order of issue

vars ==
    << env, config, guilds, rules, fresh, pc, add, toDelete, attempt, failures, calls,
       streams, handlers, connected, raised, logs, events, invocations, sends >>

setupVars == << add, toDelete, attempt, failures, calls, streams, handlers, connected >>

remoteVars == << rules, fresh >>

handlerVars == << events, invocations, sends >>

LogKinds ==
    { "restarting", "detail", "following", "connected", "newTweet", "noChannel",
      "sent", "sendFailed" }

\* log(...) of one record of each kind in `kinds`, `n` times.
Logged(l, kinds, n) == [k \in LogKinds |-> IF k \in kinds THEN l[k] + n ELSE l[k]]

GuildLists ==
    { <<>>, <<GuildPlain>>, <<GuildNone, GuildPlain>>,
      <<GuildPlain, GuildNone, GuildTwo>> }

RoleNames == { Undefined, Some(EmptyString), Some(<<"m", "o">>) }

Banners == { Undefined, Some(<<"banner.png">>) }

ChannelName == <<"T", "w">>

\* The runs that vary the Twitter side: every list of users, credential
\* and initial rule set, with setup calls that fail, before one tweet.
SetupRuns ==
    [ env : { [ faults |-> MaxFailures, tweets |-> 1,
                includes |-> IncludesWithoutAuthor \cup IncludesWithAuthor ] },
      config : [ users : UserLists, token : Tokens, channel : {ChannelName},
                 everyone : {FALSE}, role : {Undefined}, banner : {Undefined} ],
      guilds : { <<GuildNone, GuildPlain>> },
      rules : InitialRuleSets ]

\* The runs that vary the Discord side: every mention policy, banner and
\* list of guilds, with a setup that succeeds at once, before several
\* tweets, with an author and without includes.
ChatRuns ==
    [ env : { [ faults |-> 0, tweets |-> MaxEvents,
                includes |-> { Undefined,
                               Some([users |-> Some(<<Alice>>), media |-> Undefined]) } ] },
      config : [ users : { << <<"alice">> >> }, token : { Some(<<"token">>) },
                 channel : {ChannelName},
                 everyone : BOOLEAN, role : RoleNames, banner : Banners ],
      guilds : GuildLists,
      rules : { { RuleOf(1, <<"carol">>) } } ]

\* The runs that vary the tweets: every shape of includes and media, with
\* and without a banner, with a setup that succeeds at once without a
\* rule to delete, before several tweets to one guild.
TweetRuns ==
    [ env : { [ faults |-> 0, tweets |-> MaxEvents,
                includes |-> IncludesWithoutAuthor \cup IncludesWithAuthor ] },
      config : [ users : { << <<"alice">> >> }, token : { Some(<<"token">>) },
                 channel : {ChannelName},
                 everyone : {FALSE}, role : {Undefined}, banner : Banners ],
      guilds : { <<GuildPlain>> },
      rules : { {} } ]

Init ==
    /\ \E run \in SetupRuns \cup ChatRuns \cup TweetRuns :
          /\ env = run.env
          /\ config = run.config
          /\ guilds = run.guilds
          /\ rules = run.rules
    /\ fresh = 10
    /\ pc = "start"
    /\ add = <<>>
    /\ toDelete = <<>>
    /\ attempt = 0
    /\ failures = 0
    /\ calls = <<>>
    /\ streams = 0
    /\ handlers = 0
    /\ connected = FALSE
    /\ raised = {}
    /\ logs = [k \in LogKinds |-> 0]
    /\ events = 0
    /\ invocations = <<>>
    /\ sends = <<>>

\* -------------------------------------------------------------- start-up

\* artibotTwitter(artibot, twitterConfig): throws when the token is
\* missing, returns the module otherwise.
ArtibotTwitter ==
    /\ pc = "start"
    /\ IF TokenMissing(config)
       THEN /\ raised' = raised \cup {"NoToken"}
            /\ pc' = "fatal"
       ELSE /\ raised' = raised
            /\ pc' = "loaded"
    /\ UNCHANGED << env, config, guilds, remoteVars, setupVars, logs, handlerVars >>

\* mainFunction up to the setup loop.
MainFunction ==
    /\ pc = "loaded"
    /\ add' = BuildAdd(config.users)
    /\ toDelete' = <<>>
    /\ attempt' = 1
    /\ pc' = "fetch"
    /\ UNCHANGED << env, config, guilds, remoteVars, failures, calls, streams, handlers,
                    connected, raised, logs, handlerVars >>

\* ------------------------------------------------------- the setup loop

Call(op, ok, ids) == [op |-> op, attempt |-> attempt, ok |-> ok, ids |-> ids]

\* An awaited call of the try block rejected: the catch block.
Catch(op, ids) ==
    /\ failures < env.faults
    /\ failures' = failures + 1
    /\ calls' = Append(calls, Call(op, FALSE, ids))
    /\ logs' = Logged(logs, {"restarting", "detail"}, 1)
    /\ raised' = raised \cup CatchRaises
    /\ pc' = AfterCatch
    /\ attempt' = IF AfterCatch = "fetch" THEN attempt + 1 ELSE attempt
    /\ UNCHANGED << env, config, guilds, remoteVars, add, toDelete, streams, handlers,
                    connected, handlerVars >>

\* await twitter.v2.streamRules() fulfilled, and the push of the ids.
FetchOk ==
    /\ pc = "fetch"
    /\ LET activeRules == StreamRules(rules)
           ids == PushIds(toDelete, activeRules)
       IN  /\ toDelete' = ids
           /\ calls' = Append(calls, Call("fetch", TRUE, PushIds(<<>>, activeRules)))
           /\ pc' = IF DeleteNeeded(ids) THEN "delete" ELSE "add"
    /\ UNCHANGED << env, config, guilds, remoteVars, add, attempt, failures, streams,
                    handlers, connected, raised, logs, handlerVars >>

FetchFail ==
    /\ pc = "fetch"
    /\ Catch("fetch", <<>>)

\* await twitter.v2.updateStreamRules({ delete: toDelete }) fulfilled.
DeleteOk ==
    /\ pc = "delete"
    /\ rules' = DeleteRules(rules, toDelete)
    /\ calls' = Append(calls, Call("delete", TRUE, toDelete))
    /\ pc' = "add"
    /\ UNCHANGED << env, config, guilds, fresh, add, toDelete, attempt, failures, streams,
                    handlers, connected, raised, logs, handlerVars >>

DeleteFail ==
    /\ pc = "delete"
    /\ Catch("delete", toDelete)

\* await twitter.v2.updateStreamRules({ add }) fulfilled, and the
\* "Following" records.
AddOk ==
    /\ pc = "add"
    /\ rules' = AddRules(rules, add, fresh)
    /\ fresh' = fresh + Len(add)
    /\ calls' = Append(calls, Call("add", TRUE, <<>>))
    /\ logs' = Logged(logs, {"following"}, Len(config.users))
    /\ pc' = "open"
    /\ UNCHANGED << env, config, guilds, add, toDelete, attempt, failures, streams,
                    handlers, connected, raised, handlerVars >>

AddFail ==
    /\ pc = "add"
    /\ Catch("add", <<>>)

\* await twitter.v2.searchStream(...) fulfilled, stream.on(Data, ...), the
\* "Connected" record and the break.
OpenOk ==
    /\ pc = "open"
    /\ streams' = streams + 1
    /\ handlers' = handlers + 1
    /\ connected' = TRUE
    /\ calls' = Append(calls, Call("open", TRUE, <<>>))
    /\ logs' = Logged(logs, {"connected"}, 1)
    /\ pc' = AfterOpen
    /\ UNCHANGED << env, config, guilds, remoteVars, add, toDelete, attempt, failures,
                    raised, handlerVars >>

OpenFail ==
    /\ pc = "open"
    /\ Catch("open", <<>>)

\* The connection of the opened stream is lost.
Drop ==
    /\ pc = "listening"
    /\ connected
    /\ connected' = FALSE
    /\ pc' = AfterDrop
    /\ UNCHANGED << env, config, guilds, remoteVars, add, toDelete, attempt, failures,
                    calls, streams, handlers, raised, logs, handlerVars >>

\* ---------------------------------------------------------- the handler

\* The tweet of the n-th data event, with the given includes.
TweetOf(n, includes) ==
    [ data |-> [id |-> <<n>>, text |-> <<"hello">>], includes |-> includes ]

\* A send that builds its message from a tweet kept in a variable that
\* the invocations share: the tweet of the latest data event.
SendOfLatest(k, g, tweet) ==
    [ inv |-> k, guild |-> g, channel |-> FindChannel(guilds[g], config),
      message |-> BuildMessage(config,
                               IF invocations = <<>> THEN tweet
                               ELSE invocations[Len(invocations)].tweet,
                               Tag(config, guilds[g])),
      status |-> "pending" ]

\* channel.send(message) of invocation k in guild g: the call as issued.
SendOf(k, g, tweet) ==
    [ inv |-> k, guild |-> g, channel |-> FindChannel(guilds[g], config),
      message |-> BuildMessage(config, tweet, Tag(config, guilds[g])),
      status |-> "pending" ]

\* The loop over the guilds, run by invocation k from guild index `from`
\* up to its next await (the send to the next guild with a channel) or to
\* its end; `log` and `sent` are the logs and the sends so far.
RunLoop(k, tweet, from, log, sent) ==
    LET targets == Targets(guilds, config, from)
        more == targets # <<>>
        target == IF more THEN targets[Len(targets)] ELSE Len(guilds) + 1
    IN  /\ invocations' =
               [i \in 1..(IF k > Len(invocations) THEN k ELSE Len(invocations)) |->
                   IF i = k
                   THEN [ tweet |-> tweet, at |-> target,
                          state |-> IF more THEN "awaiting" ELSE "returned" ]
                   ELSE invocations[i]]
        /\ sends' = sent \o [n \in 1..Len(targets) |-> SendOf(k, targets[n], tweet)]
        /\ logs' = Logged(log, {"noChannel"},
                           target - from - (IF more THEN Len(targets) - 1 ELSE 0))

\* The stream emits a data event: the handler runs up to its first await.
Data(includes) ==
    /\ pc = "listening"
    /\ handlers >= 1
    /\ connected
    /\ events < env.tweets
    /\ events' = events + 1
    /\ LET tweet == TweetOf(events + 1, includes)
           k == Len(invocations) + 1
       IN  IF ~HasAuthor(tweet)
           THEN /\ invocations' =
                       Append(invocations, [tweet |-> tweet, at |-> 0, state |-> "returned"])
                /\ UNCHANGED << sends, logs >>
           ELSE RunLoop(k, tweet, 1, Logged(logs, {"newTweet"}, 1), sends)
    /\ UNCHANGED << env, config, guilds, remoteVars, pc, setupVars, raised >>

\* The pending send of invocation k settles, fulfilled or rejected: the
\* handler logs and runs on to its next await.
Settle(k, fulfilled) ==
    /\ invocations[k].state = "awaiting"
    /\ LET at == invocations[k].at
           sent == [i \in 1..Len(sends) |->
                       IF sends[i].inv = k /\ sends[i].status = "pending"
                       THEN [sends[i] EXCEPT !.status =
                                IF fulfilled THEN "fulfilled" ELSE "rejected"]
                       ELSE sends[i]]
           log == IF fulfilled THEN Logged(logs, {"sent"}, 1)
                  ELSE Logged(logs, {"sendFailed", "detail"}, 1)
       IN  RunLoop(k, invocations[k].tweet, AfterSend(guilds, at, fulfilled), log, sent)
    /\ raised' = IF fulfilled THEN raised ELSE raised \cup SendCatchRaises
    /\ UNCHANGED << env, config, guilds, remoteVars, pc, setupVars, events >>

SendFulfilled == \E k \in 1..Len(invocations) : Settle(k, TRUE)

SendRejected == \E k \in 1..Len(invocations) : Settle(k, FALSE)

DataWithAuthor == \E inc \in IncludesWithAuthor \cap env.includes : Data(inc)

DataWithoutAuthor == \E inc \in IncludesWithoutAuthor \cap env.includes : Data(inc)

\* ------------------------------------------------------- specification

Next ==
    \/ ArtibotTwitter
    \/ MainFunction
    \/ FetchOk
    \/ FetchFail
    \/ DeleteOk
    \/ DeleteFail
    \/ AddOk
    \/ AddFail
    \/ OpenOk
    \/ OpenFail
    \/ Drop
    \/ DataWithAuthor
    \/ DataWithoutAuthor
    \/ SendFulfilled
    \/ SendRejected

Spec == Init /\ [][Next]_vars

\* The setup calls settle: an awaited call that can be fulfilled is.
FairSpec ==
    /\ Spec
    /\ WF_vars(ArtibotTwitter)
    /\ WF_vars(MainFunction)
    /\ WF_vars(FetchOk)
    /\ WF_vars(DeleteOk)
    /\ WF_vars(AddOk)
    /\ WF_vars(OpenOk)

\* ------------------------------------------------------------ properties

\* The indices of the calls of one kind.
CallsOf(op) == { i \in 1..Len(calls) : calls[i].op = op }

\* The sends of invocation k to guild g.
SendsTo(k, g) == { i \in 1..Len(sends) : sends[i].inv = k /\ sends[i].guild = g }

\* A guild has a text channel whose name is the configured name, case
\* apart.
GuildMatches(g) ==
    \E c \in 1..Len(guilds[g].channels) :
        /\ guilds[g].channels[c].type = GuildText
        /\ ToLowerCase(guilds[g].channels[c].name) = ToLowerCase(config.channel)

\* A tweet lacks its author: no includes, no users, or no first user.
LacksAuthor(tweet) ==
    \/ tweet.includes = Undefined
    \/ ValueOf(tweet.includes).users = Undefined
    \/ ValueOf(ValueOf(tweet.includes).users) = <<>>

\* The rules wanted on the Twitter side: one per configured user.
WantedRules ==
    { [value |-> <<"from:">> \o config.users[i], tag |-> config.users[i]] :
        i \in 1..Len(config.users) }

\* C1: once the fetch, the delete (if made) and the add of an attempt
\* have succeeded, the active rules on the Twitter side are exactly one
\* rule per configured user, value "from:<user>" and tag <user>, whatever
\* rules were active before.
C1_RulesReconciled ==
    pc \in {"open", "listening"} =>
        /\ { [value |-> r.value, tag |-> r.tag] : r \in rules } = WantedRules
        /\ Cardinality(rules) = Len(config.users)

\* C1 witness: an attempt has completed for two users after a delete of
\* three rules (a superset of the wanted ones).
C1_Witness ==
    /\ pc = "open"
    /\ Len(config.users) = 2
    /\ \E i \in CallsOf("delete") : calls[i].ok /\ Len(calls[i].ids) = 3

\* C2: in every attempt, the first and the later ones, a delete request
\* is made only if the fetch of that attempt returned at least one rule.
C2_NoDeleteAfterEmptyFetch ==
    \A i \in CallsOf("delete") :
        \E j \in CallsOf("fetch") :
            /\ j < i
            /\ calls[j].attempt = calls[i].attempt
            /\ Len(calls[j].ids) > 0

\* C3: when the setup has failed K times and then succeeded, the loop
\* body was entered K + 1 times (K + 1 fetches were made), Listening was
\* reached once and one handler is registered; before that no handler is.
C3_AttemptsAndListening ==
    /\ pc = "listening" =>
          /\ attempt = failures + 1
          /\ Cardinality(CallsOf("fetch")) = failures + 1
          /\ logs["connected"] = 1
          /\ streams = 1
          /\ handlers = 1
    /\ pc # "listening" => handlers = 0 /\ logs["connected"] = 0

\* C3 witness: Listening after two or more failures, in the open-stream
\* call among others.
C3_Witness ==
    /\ pc = "listening"
    /\ failures >= 2
    /\ \E i \in CallsOf("open") : ~calls[i].ok

\* C4: the setup loop never gives up: when the awaited calls settle and
\* fail finitely often, mainFunction, once called, reaches Listening.
C4_EventuallyListening == (pc = "loaded") ~> (pc = "listening")

\* C4 witness: Listening after every failure the environment had.
C4_Witness ==
    /\ pc = "listening"
    /\ failures = env.faults
    /\ failures >= 2
    /\ \E i \in CallsOf("fetch") : ~calls[i].ok

\* C5: a data event without author metadata (no includes, no users, an
\* empty users list) leads to no send.
C5_NoAuthorNoSend ==
    \A k \in 1..Len(invocations) :
        LacksAuthor(invocations[k].tweet) =>
            /\ invocations[k].state = "returned"
            /\ \A i \in 1..Len(sends) : sends[i].inv # k

\* C5 witness: an event with an empty users list was handled where a
\* guild has the channel, after an event with an author was sent.
C5_Witness ==
    /\ \E k \in 1..Len(invocations) :
          /\ IsDefined(invocations[k].tweet.includes)
          /\ ValueOf(invocations[k].tweet.includes).users = Some(<<>>)
    /\ \E g \in 1..Len(guilds) : GuildMatches(g)
    /\ sends # <<>>

\* C6: an invocation for an event with an author makes at most one send
\* per guild and none to a guild without a matching channel, and when it
\* has returned it has made exactly one send to every matching guild,
\* rejected sends included.
C6_OneSendPerMatchingGuild ==
    \A k \in 1..Len(invocations) :
        ~LacksAuthor(invocations[k].tweet) =>
            \A g \in 1..Len(guilds) :
                /\ Cardinality(SendsTo(k, g)) <= 1
                /\ ~GuildMatches(g) => SendsTo(k, g) = {}
                /\ (invocations[k].state = "returned" /\ GuildMatches(g))
                      => Cardinality(SendsTo(k, g)) = 1

\* C6 witness: an invocation has returned over three guilds, two of them
\* matching (one with two matching channels and without the configured
\* role), after its first send was rejected.
C6_Witness ==
    /\ Len(guilds) = 3
    /\ Truthy(config.role)
    /\ \E k \in 1..Len(invocations) :
          /\ invocations[k].state = "returned"
          /\ Cardinality({ i \in 1..Len(sends) : sends[i].inv = k }) = 2
          /\ \E i \in SendsTo(k, 1) : sends[i].status = "rejected"

\* The roles of a guild whose name is the configured role name, case
\* apart.
MatchingRoles(g) ==
    { r \in 1..Len(guilds[g].roles) :
        ToLowerCase(guilds[g].roles[r].name) = ToLowerCase(ValueOf(config.role)) }

\* C7: the content of every message is the everyone-marker when the
\* everyone flag is set; otherwise the mention of a role of the guild
\* whose name matches the configured role name, case apart, when a role
\* is configured and found; otherwise absent.
C7_MentionPrefix ==
    \A i \in 1..Len(sends) :
        LET content == sends[i].message.content
            g == sends[i].guild
        IN  IF config.everyone
            THEN content = Some(<<"@everyone ">>)
            ELSE IF Truthy(config.role) /\ MatchingRoles(g) # {}
            THEN \E r \in MatchingRoles(g) :
                     content = Some(<<"<@&">> \o guilds[g].roles[r].id \o <<">", " ">>)
            ELSE content = Undefined

\* C7 witness: a message went out with the everyone-marker to a guild
\* that has the configured role.
C7_Witness ==
    \E i \in 1..Len(sends) :
        /\ config.everyone
        /\ Truthy(config.role)
        /\ MatchingRoles(sends[i].guild) # {}
        /\ sends[i].message.content = Some(<<"@everyone ">>)

\* C8: after a rejected send of an invocation, every later matching
\* guild has got its send from that invocation, or the invocation is
\* still awaiting a send to a guild before it.
C8_FailureDoesNotStopLoop ==
    \A i \in 1..Len(sends) :
        sends[i].status = "rejected" =>
            \A g \in (sends[i].guild + 1)..Len(guilds) :
                GuildMatches(g) =>
                    \/ SendsTo(sends[i].inv, g) # {}
                    \/ /\ invocations[sends[i].inv].state = "awaiting"
                       /\ invocations[sends[i].inv].at < g

\* C8 witness: an invocation's send to the first guild was rejected and
\* its send to the third guild was made.
C8_Witness ==
    \E i \in 1..Len(sends) :
        /\ sends[i].status = "rejected"
        /\ sends[i].guild = 1
        /\ SendsTo(sends[i].inv, 3) # {}

\* C9: the only fault raised out of the module is the missing-token
\* fault of the start-up; every failed setup call and every rejected
\* send is logged instead.
C9_OnlyTokenFaultRaised ==
    /\ raised \subseteq {"NoToken"}
    /\ raised # {} => pc = "fatal"
    /\ logs["restarting"] = Cardinality({ i \in 1..Len(calls) : ~calls[i].ok })
    /\ logs["sendFailed"] =
          Cardinality({ i \in 1..Len(sends) : sends[i].status = "rejected" })

\* C9 witness: setup calls have failed and a send was rejected, and
\* nothing was raised.
C9_Witness ==
    /\ failures >= 1
    /\ \E i \in 1..Len(sends) : sends[i].status = "rejected"
    /\ raised = {}

\* C10: without a credential (token undefined or empty) the start-up
\* raises the missing-token fault and no setup call is ever made: the
\* loop body is never entered.
C10_NoTokenNoSetup ==
    (config.token = Undefined \/ config.token = Some(EmptyString)) =>
        /\ calls = <<>>
        /\ attempt = 0
        /\ pc \in {"start", "fatal"}
        /\ pc = "fatal" => raised = {"NoToken"}

\* C10 witness: the start-up has raised the fault for an empty token.
C10_Witness ==
    /\ config.token = Some(EmptyString)
    /\ pc = "fatal"
    /\ raised = {"NoToken"}

\* C11: the identifiers of every delete request are exactly those that
\* the fetch of the same attempt returned.
C11_DeleteIdsAreFetchedIds ==
    \A i \in CallsOf("delete") :
        \E j \in CallsOf("fetch") :
            /\ j < i
            /\ calls[j].attempt = calls[i].attempt
            /\ calls[j].ids = calls[i].ids

\* A call that failed after its attempt had changed the rules: a failed
\* add after a delete of the same attempt, or a failed open-stream.
PartialFailure(i) ==
    /\ ~calls[i].ok
    /\ \/ calls[i].op = "open"
       \/ /\ calls[i].op = "add"
          /\ \E j \in CallsOf("delete") : calls[j].ok /\ calls[j].attempt = calls[i].attempt

\* C12: after an attempt that failed once its delete or its add had
\* succeeded, the next call is the fetch of the next attempt; when that
\* attempt comes to its add no rule is active (nothing of the failed
\* attempt is left to collide with), and when it has completed the
\* active rules are exactly one per configured user.
C12_RetryReconcilesAgain ==
    \A i \in 1..Len(calls) :
        PartialFailure(i) =>
            /\ i < Len(calls) =>
                  /\ calls[i + 1].op = "fetch"
                  /\ calls[i + 1].attempt = calls[i].attempt + 1
            /\ (attempt = calls[i].attempt + 1 /\ pc = "add") => rules = {}
            /\ (attempt = calls[i].attempt + 1 /\ pc \in {"open", "listening"}) =>
                  /\ { [value |-> r.value, tag |-> r.tag] : r \in rules } = WantedRules
                  /\ Cardinality(rules) = Len(config.users)

\* C12 witness: the attempt after a failed open-stream has completed,
\* having deleted a rule that the failed attempt had added.
C12_Witness ==
    /\ pc = "open"
    /\ config.users # <<>>
    /\ \E i \in CallsOf("open") :
          /\ ~calls[i].ok
          /\ calls[i].attempt + 1 = attempt
    /\ \E j \in CallsOf("delete") :
          /\ calls[j].ok
          /\ calls[j].attempt = attempt
          /\ \E n \in 1..Len(calls[j].ids) : calls[j].ids[n] >= 10

\* The kinds of call that may follow a fulfilled call in its attempt.
FollowsInAttempt ==
    { <<"fetch", "delete">>, <<"fetch", "add">>, <<"delete", "add">>, <<"add", "open">> }

\* C13: the first call is a fetch; a fulfilled call is followed, in the
\* same attempt, by the next step (delete or add after fetch, add after
\* delete, open-stream after add, nothing after open-stream); a rejected
\* call is followed by the fetch of the next attempt; the handler is
\* registered only after a fulfilled open-stream.
C13_CallOrder ==
    /\ calls # <<>> => calls[1].op = "fetch" /\ calls[1].attempt = 1
    /\ \A i \in 1..(Len(calls) - 1) :
          IF calls[i].ok
          THEN /\ calls[i + 1].attempt = calls[i].attempt
               /\ <<calls[i].op, calls[i + 1].op>> \in FollowsInAttempt
          ELSE /\ calls[i + 1].attempt = calls[i].attempt + 1
               /\ calls[i + 1].op = "fetch"
    /\ handlers # 0 =>
          /\ calls # <<>>
          /\ calls[Len(calls)].op = "open"
          /\ calls[Len(calls)].ok

\* C13 witness: a delete was rejected, and a later attempt went through
\* delete, add and open-stream.
C13_Witness ==
    /\ pc = "listening"
    /\ \E i \in CallsOf("delete") : ~calls[i].ok
    /\ \E i \in CallsOf("delete") : calls[i].ok /\ calls[i].attempt = attempt

\* C14: once Listening is reached, it is never left, no call is made to
\* the Twitter API and the rules are not changed, also after the
\* connection is lost; the rules never change while an invocation of the
\* handler exists.
C14_NoSetupAfterListening ==
    [][ /\ pc = "listening" =>
             /\ pc' = "listening"
             /\ calls' = calls
             /\ rules' = rules
             /\ streams' = streams
             /\ attempt' = attempt
        /\ invocations # <<>> => rules' = rules ]_vars

\* C14 witness: the connection is lost while an invocation awaits a send.
C14_Witness ==
    /\ pc = "listening"
    /\ ~connected
    /\ \E k \in 1..Len(invocations) : invocations[k].state = "awaiting"

\* C15: at most one stream is ever opened and at most one handler
\* registered, and every data event has one invocation of the handler.
C15_OneStream ==
    /\ streams <= 1
    /\ handlers <= 1
    /\ handlers = streams
    /\ connected => streams = 1
    /\ Len(invocations) = events * handlers

\* C15 witness: the stream is open after an open-stream call failed.
C15_Witness ==
    /\ streams = 1
    /\ connected
    /\ \E i \in CallsOf("open") : ~calls[i].ok

\* The invocations for tweets with an author.
WithAuthor == { k \in 1..Len(invocations) : ~LacksAuthor(invocations[k].tweet) }

\* C16: every send of an invocation carries the tweet of its own event
\* (the link holds that event's identifier) and goes to the matching
\* channel of its guild, and when all invocations have returned the
\* sends are one per event with an author and matching guild, however
\* the invocations were interleaved.
C16_OverlapKeepsDeliveries ==
    /\ \A i \in 1..Len(sends) :
          /\ sends[i].message.embeds[1].url =
                 <<"https://twitter.com/", "alice", "/status/", sends[i].inv>>
          /\ guilds[sends[i].guild].channels[sends[i].channel].type = GuildText
          /\ ToLowerCase(guilds[sends[i].guild].channels[sends[i].channel].name)
                 = ToLowerCase(config.channel)
    /\ (\A k \in 1..Len(invocations) : invocations[k].state = "returned") =>
          \A k \in WithAuthor : \A g \in 1..Len(guilds) :
              Cardinality(SendsTo(k, g)) = IF GuildMatches(g) THEN 1 ELSE 0

\* C16 witness: two invocations have returned whose sends were issued
\* in turns (first, second, first).
C16_Witness ==
    /\ \A k \in 1..Len(invocations) : invocations[k].state = "returned"
    /\ \E i, j, l \in 1..Len(sends) :
          /\ i < j /\ j < l
          /\ sends[i].inv = 1 /\ sends[j].inv = 2 /\ sends[l].inv = 1

\* The media of a tweet, none when absent.
MediaOf(tweet) ==
    IF tweet.includes # Undefined /\ ValueOf(tweet.includes).media # Undefined
    THEN ValueOf(ValueOf(tweet.includes).media)
    ELSE <<>>

\* The places of the photos and animated images in the media of a tweet.
ImagesOf(tweet) ==
    { n \in 1..Len(MediaOf(tweet)) :
        MediaOf(tweet)[n].type \in {"photo", "animated_gif"} }

\* C17: every message holds the tweet's card first and, exactly when a
\* banner is configured, one second card with the banner; the tweet's
\* card has an image exactly when the tweet has a photo or an animated
\* image among its media, and it is the first of them.
C17_Payload ==
    \A i \in 1..Len(sends) :
        LET embeds == sends[i].message.embeds
            tweet == invocations[sends[i].inv].tweet
        IN  /\ embeds[1].title = <<"New Tweet">>
            /\ Len(embeds) = IF config.banner # Undefined THEN 2 ELSE 1
            /\ Len(embeds) = 2 =>
                  /\ embeds[2].image = config.banner
                  /\ embeds[2].title = EmptyString
            /\ ImagesOf(tweet) = {} => embeds[1].image = Undefined
            /\ ImagesOf(tweet) # {} =>
                  \E n \in ImagesOf(tweet) :
                      /\ \A m \in ImagesOf(tweet) : n <= m
                      /\ embeds[1].image = Some(MediaOf(tweet)[n].url)

\* C17 witness: a message with a banner card went out for a tweet whose
\* media are a video, an animated image and a photo, in this order.
C17_Witness ==
    \E i \in 1..Len(sends) :
        /\ Len(sends[i].message.embeds) = 2
        /\ MediaOf(invocations[sends[i].inv].tweet) = MediaMixed
        /\ sends[i].message.embeds[1].image = Some(<<"g.gif">>)

\* C18 as claimed: in every guild the sends are issued in the order in
\* which the stream emitted their events.
C18_EmissionOrderEverywhere ==
    \A i, j \in 1..Len(sends) :
        (i < j /\ sends[i].guild = sends[j].guild) => sends[i].inv <= sends[j].inv

\* The first guild with a matching channel, 0 when there is none.
FirstMatching == FindIndex({ g \in 1..Len(guilds) : GuildMatches(g) })

\* C18 amended: in the first guild with a matching channel the sends are
\* issued in the order in which the stream emitted their events.
C18_EmissionOrderAtFirstGuild ==
    \A i, j \in 1..Len(sends) :
        (i < j /\ sends[i].guild = FirstMatching /\ sends[j].guild = FirstMatching)
            => sends[i].inv < sends[j].inv

\* C18 witness: two overlapping invocations sent to the first matching
\* guild in the order of their events and to a later guild in the
\* reverse order.
C18_Witness ==
    /\ \E i, j \in 1..Len(sends) :
          /\ i < j
          /\ sends[i].guild = FirstMatching /\ sends[j].guild = FirstMatching
          /\ sends[i].inv = 1 /\ sends[j].inv = 2
    /\ \E i, j \in 1..Len(sends) :
          /\ i < j
          /\ sends[i].guild = sends[j].guild
          /\ sends[i].inv = 2 /\ sends[j].inv = 1

\* C19: the sends of one invocation are issued in the order of the
\* guilds and one at a time: at most one is pending, the pending one is
\* the send the invocation awaits, and no send to a later guild is
\* issued while it is pending.
C19_OneSendInFlight ==
    \A k \in 1..Len(invocations) :
        LET mine == { i \in 1..Len(sends) : sends[i].inv = k }
            pending == { i \in mine : sends[i].status = "pending" }
        IN  /\ Cardinality(pending) <= 1
            /\ \A i, j \in mine : i < j => sends[i].guild < sends[j].guild
            /\ \A i \in pending :
                  /\ invocations[k].state = "awaiting"
                  /\ invocations[k].at = sends[i].guild
                  /\ \A j \in mine : sends[j].guild <= sends[i].guild
            /\ invocations[k].state = "awaiting" => pending # {}

\* C19 witness: an invocation awaits its send to the first guild while
\* the third guild, which has the channel, has no send from it, and a
\* later invocation awaits too.
C19_Witness ==
    /\ Len(guilds) = 3
    /\ GuildMatches(3)
    /\ Len(invocations) >= 2
    /\ invocations[1].state = "awaiting" /\ invocations[1].at = 1
    /\ SendsTo(1, 3) = {}
    /\ invocations[2].state = "awaiting"

====
